---- MODULE Spec2Model ----
(***************************************************************************)
(* A state-machine model of EGLRenderer                                    *)
(* (app/streaming/video/ffmpeg-renderers/eglvid.cpp): one renderer         *)
(* instance, the driver and backend it calls, and the overlay manager it   *)
(* reads.  Every handler of the renderer is one atomic action; the inputs  *)
(* the handler reads from its collaborators (the backend's answers, the    *)
(* driver's answers) are drawn with \E.                                    *)
(***************************************************************************)
EXTENDS Integers, Sequences, FiniteSets

(* ------------------------------------------------------------------ *)
(* Bounds of the model                                                 *)
(* ------------------------------------------------------------------ *)

\* renderFrame is called at most MaxFrames times on the instance
MaxFrames == 2

\* besides the plain stream of frames, at most MaxEvents things happen to the
\* instance after initialize(): a test frame, a change of an overlay by the
\* application (enable, disable, new content), or a call of the renderer in which
\* the driver or the backend fails (a shader that does not build, an import that
\* fails, an entry point that does not resolve, a malloc() that returns NULL)
MaxEvents == 2

(* ------------------------------------------------------------------ *)
(* Program constants                                                   *)
(* ------------------------------------------------------------------ *)

\* EGL_NO_SYNC, the value of m_LastRenderSync when no fence is pending
EGL_NO_SYNC == 0

\* AV_PIX_FMT_NONE and the layouts the backend may report
AV_PIX_FMT_NONE == "AV_PIX_FMT_NONE"

PixelFormats == {"AV_PIX_FMT_NV12", "AV_PIX_FMT_P010", "AV_PIX_FMT_DRM_PRIME",
                 "AV_PIX_FMT_YUV420P"}

\* Overlay::OverlayType, in the order renderFrame's loop visits the slots
OverlayOrder == <<"OverlayDebug", "OverlayStatusUpdate">>

OverlayTypes == {OverlayOrder[i] : i \in DOMAIN OverlayOrder}

\* SDL_SysWMinfo.subsystem values initialize() tells apart
Subsystems == {"SDL_SYSWM_X11", "SDL_SYSWM_WAYLAND", "SDL_SYSWM_KMSDRM"}

\* The frame metadata hasFrameFormatChanged() compares
Colorspaces == {"COLORSPACE_REC_601", "COLORSPACE_REC_709"}

FrameFormats == [colorspace : Colorspaces, fullRange : {FALSE}]

\* before any frame has been looked at
NoFrameFormat == [colorspace |-> "unset", fullRange |-> FALSE]

\* plane counts the backend's exportEGLImages() may return
PlaneCounts == {-1, 0, 2}

\* GL entry points the handlers resolve with SDL_GL_GetProcAddress on every call;
\* the driver may leave one family unresolved
GLProcFamilies == {"bind", "draw", "clear", "uniform", "upload", "viewport", "blend"}

GLMissing == {"none"} \cup GLProcFamilies

VARIABLES
    \* ---- EGLRenderer fields
    m_EGLImagePixelFormat,   \* AV_PIX_FMT_NONE until specialised
    m_ShaderProgram,         \* 0 or a GL program name
    m_OverlayShaderProgram,  \* 0 or a GL program name
    m_VideoVAO,              \* 0 or a vertex array name
    m_Context,               \* TRUE when SDL_GL_CreateContext succeeded
    m_BlockingSwapBuffers,
    m_LastRenderSync,        \* EGL_NO_SYNC or the pending fence
    m_eglCreateSync,         \* TRUE when the entry point is resolved
    m_eglCreateSyncKHR,
    m_eglDestroySync,
    m_eglClientWaitSync,
    m_OverlayHasValidData,   \* [OverlayTypes -> {0, 1}], SDL_atomic_t
    m_InitFailureReason,     \* "unset" or the classification
    canUnpackRowLength,      \* m_GlesMajorVersion >= 3 || m_HasExtUnpackSubimage
    lastFrameFormat,         \* what hasFrameFormatChanged() last saw
    \* ---- driver, backend and application state the renderer acts on
    ctxCurrent,              \* the handler family the GL context is current for
    liveFences,              \* fences created and not destroyed
    uniformsFormat,          \* frame format of the constants in the video program
    exportedImages,          \* successful exportEGLImages() calls
    freedImages,             \* image sets handed back to the backend
    overlayEnabled,          \* OverlayManager::isOverlayEnabled
    overlayPending,          \* an updated surface waits in the OverlayManager
    frameRefs,               \* frames the renderer holds a reference of its own to
    \* ---- call history
    phase,                   \* "constructed", "initialized", "unusable", "stopped",
                             \* "destroyed"
    frameNo,                 \* renderFrame calls so far; the current frame's number
    compileCalls,            \* compileShaders calls so far
    formatQueries,           \* getEGLImagePixelFormat calls so far
    lastOp,                  \* the handler that ran last
    lastResult,              \* how it returned
    lastPlaneCount,          \* what exportEGLImages returned to it
    lastInputs,              \* what it was given and what its collaborators answered
    glLog,                   \* the calls it made, in order
    events,                  \* test frames, overlay changes and failing calls so far
    waited,                  \* waitToRender ran since the last renderFrame
    assertFailed,            \* the SDL_assert sites that have failed
    backBufferCleared,       \* glClear ran since the last SDL_GL_SwapWindow
    \* ---- a call of a member function that reads and writes no field
    call                     \* its arguments and, once it has returned, its result

fieldVars == <<m_EGLImagePixelFormat, m_ShaderProgram, m_OverlayShaderProgram,
               m_VideoVAO, m_LastRenderSync, m_OverlayHasValidData, lastFrameFormat>>

setupVars == <<m_Context, m_BlockingSwapBuffers, m_eglCreateSync, m_eglCreateSyncKHR,
               m_eglDestroySync, m_eglClientWaitSync, m_InitFailureReason,
               canUnpackRowLength>>

driverVars == <<liveFences, uniformsFormat, exportedImages, freedImages, frameRefs>>

overlayVars == <<overlayEnabled, overlayPending>>

countVars == <<frameNo, compileCalls, formatQueries, events>>

callVars == <<lastOp, lastResult, lastPlaneCount, lastInputs, glLog>>

ghostVars == <<waited, assertFailed, backBufferCleared>>

\* the instance, its collaborators and its call history
rendererVars == <<fieldVars, setupVars, driverVars, overlayVars, countVars, callVars,
                  ghostVars, ctxCurrent, phase>>

vars == <<rendererVars, call>>

Range(s) == {s[i] : i \in DOMAIN s}

\* no call of a function without state is looked at
NoCall == [fn |-> "none", done |-> TRUE]

\* lastInputs of a call whose inputs the model does not keep
NoInputs == [of |-> "none"]

\* The thread a holder of the GL context runs on.  initialize() hands the context
\* from "this thread" to the render thread (line 868), prepareToRender is called
\* by the same owner, and the destructor reattaches it "to the main thread"
\* (line 89); waitToRender, renderFrame and cleanupRenderContext run on the render
\* thread (lines 1002, 1008, 1050).
ThreadOf(holder) ==
    IF holder \in {"initialize", "destructor"} THEN "main"
    ELSE IF holder = "render" THEN "render"
    ELSE "no thread"

\* positions of event e in log s
Positions(s, e) == {i \in DOMAIN s : s[i] = e}

(* ------------------------------------------------------------------ *)
(* EGLRenderer::EGLRenderer                                             *)
(* ------------------------------------------------------------------ *)

RendererInit ==
    /\ m_EGLImagePixelFormat = AV_PIX_FMT_NONE
    /\ m_ShaderProgram = 0
    /\ m_OverlayShaderProgram = 0
    /\ m_VideoVAO = 0
    /\ m_Context = FALSE
    /\ m_BlockingSwapBuffers = FALSE
    /\ m_LastRenderSync = EGL_NO_SYNC
    /\ m_eglCreateSync = FALSE
    /\ m_eglCreateSyncKHR = FALSE
    /\ m_eglDestroySync = FALSE
    /\ m_eglClientWaitSync = FALSE
    /\ m_OverlayHasValidData = [t \in OverlayTypes |-> 0]
    /\ m_InitFailureReason = "unset"
    /\ canUnpackRowLength = FALSE
    /\ lastFrameFormat = NoFrameFormat
    /\ ctxCurrent = "none"
    /\ liveFences = {}
    /\ uniformsFormat = NoFrameFormat
    /\ exportedImages = 0
    /\ freedImages = 0
    /\ overlayEnabled = [t \in OverlayTypes |-> FALSE]
    /\ overlayPending = [t \in OverlayTypes |-> FALSE]
    /\ frameRefs = {}
    /\ phase = "constructed"
    /\ frameNo = 0
    /\ compileCalls = 0
    /\ formatQueries = 0
    /\ events = 0
    /\ lastOp = "EGLRenderer"
    /\ lastResult = "ok"
    /\ lastPlaneCount = 0
    /\ lastInputs = NoInputs
    /\ glLog = <<>>
    /\ waited = FALSE
    /\ backBufferCleared = FALSE
    /\ assertFailed = {}

\* the renderer after construction, no call of a field-free function being looked at
Init ==
    /\ RendererInit
    /\ call = NoCall

(* ------------------------------------------------------------------ *)
(* EGLRenderer::initialize                                              *)
(* ------------------------------------------------------------------ *)

\* PDECODER_PARAMETERS, with the windowing subsystem SDL_GetWindowWMInfo reports
DecoderParams == [tenBit : BOOLEAN, enableVsync : BOOLEAN, subsystem : Subsystems]

\* The calls of initialize() that can fail, in the order the code makes them;
\* "none" when every one of them succeeds
InitFailPoints == <<"SDL_VERSION_ATLEAST", "SDL_GL_LoadLibrary", "SDL_GetRenderDriverInfo",
                    "SDL_GetWindowWMInfo", "SDL_GL_CreateContext", "SDL_GL_MakeCurrent",
                    "SDL_GL_GetProcAddress", "glGetString", "eglGetCurrentDisplay",
                    "initializeEGL", "glEGLImageTargetTexture2DOES", "VAO functions",
                    "setupVideoRenderingState", "setupOverlayRenderingState",
                    "glGetError", "none">>

FailIndex(f) == CHOOSE i \in DOMAIN InitFailPoints : InitFailPoints[i] = f

\* the call named f fails, and no call before it did
FailsAt(fail, f) == fail = f

\* the failing call comes after the call named f: f itself succeeded
Passed(fail, f) == FailIndex(fail) > FailIndex(f)

\* the return paths of initialize() that set m_InitFailureReason
SetsFailureReason(f) ==
    f \in {"SDL_VERSION_ATLEAST", "SDL_GL_LoadLibrary", "SDL_GetRenderDriverInfo",
           "SDL_GetWindowWMInfo", "SDL_GL_CreateContext", "SDL_GL_MakeCurrent",
           "SDL_GL_GetProcAddress", "glGetString"}

\* the else-if of line 768 is left out
EitherImageExtension(khrImageBase, khrImage, oesEglImage) == khrImageBase \/ khrImage

\* lines 761-770: the mandatory extensions
MandatoryExtensionsPresent(khrImageBase, khrImage, oesEglImage) ==
    /\ khrImageBase \/ khrImage
    /\ oesEglImage

\* the test of line 813 does not look at the destroy entry point
CreateAndWaitUsable(create, createKHR, destroy, wait) == (create \/ createKHR) /\ wait

\* lines 813-821: all of create, destroy and wait resolved, or none is kept
SyncFunctionsUsable(create, createKHR, destroy, wait) ==
    (create \/ createKHR) /\ destroy /\ wait

\* lines 834-838: swap interval 1
WantsSwapInterval(p) ==
    p.enableVsync /\ p.subsystem # "SDL_SYSWM_WAYLAND"

\* the test of line 848 is left out
BlockingWithSwapInterval(p) == WantsSwapInterval(p)

\* lines 848-852: blocking swap
WantsBlockingSwap(p) ==
    WantsSwapInterval(p) /\ p.subsystem # "SDL_SYSWM_KMSDRM"

\* lines 761-770 not reached: the extension strings were not looked at
ExtensionsNotRead ==
    [read |-> FALSE, khrImageBase |-> FALSE, khrImage |-> FALSE, oesEglImage |-> FALSE]

\* lines 761-770 reached: what the extension strings hold
ExtensionsRead(khrImageBase, khrImage, oesEglImage) ==
    [read |-> TRUE, khrImageBase |-> khrImageBase, khrImage |-> khrImage,
     oesEglImage |-> oesEglImage]

\* lines 799-811 not reached: the sync entry points were not looked up
SyncNotRead ==
    [read |-> FALSE, fenceSyncExt |-> FALSE, create |-> FALSE, destroy |-> FALSE,
     wait |-> FALSE]

\* lines 799-811 reached: EGL_KHR_fence_sync is listed, and the lookups of the
\* create, destroy and wait entry points return a pointer
SyncRead(fenceSyncExt, create, destroy, wait) ==
    [read |-> TRUE, fenceSyncExt |-> fenceSyncExt, create |-> create,
     destroy |-> destroy, wait |-> wait]

\* what one call of initialize() was given and was answered
InitializeInputs(p, ext, sync) ==
    [of |-> "initialize", params |-> p, extensions |-> ext, syncProcs |-> sync]

\* a return of initialize() before the sync entry points are looked up
InitializeReturnsEarly(p, ext, fail, reason, context, current, unpack) ==
    /\ phase' = "unusable"
    /\ lastInputs' = InitializeInputs(p, ext, SyncNotRead)
    /\ m_InitFailureReason' = IF reason THEN "NoSoftwareSupport" ELSE m_InitFailureReason
    /\ m_Context' = context
    /\ ctxCurrent' = IF current THEN "initialize" ELSE ctxCurrent
    /\ canUnpackRowLength' = unpack
    /\ lastResult' = fail
    /\ glLog' = <<>>
    /\ UNCHANGED <<m_BlockingSwapBuffers, m_eglCreateSync, m_eglCreateSyncKHR,
                   m_eglDestroySync, m_eglClientWaitSync>>

\* line 869 is left out
ContextKeptAfterInitialize(setupOk) == "initialize"

\* lines 856-869: who holds the context when initialize() returns from here on.
\* Line 869 detaches it; the return at line 858 comes before that line.
ContextAfterInitialize(setupOk) == IF setupOk THEN "none" ELSE "initialize"

\* lines 799-879: from the sync entry points to the return
InitializeFinishes(p, ext, fail, unpack, fenceSyncExt, create, destroy, wait) ==
    LET usable == SyncFunctionsUsable(create /\ ~fenceSyncExt, create /\ fenceSyncExt,
                                      destroy, wait)
        setupOk == fail \notin {"setupVideoRenderingState", "setupOverlayRenderingState"}
    IN  /\ lastInputs' = InitializeInputs(p, ext, SyncRead(fenceSyncExt, create, destroy, wait))
        /\ m_eglCreateSync' = (usable /\ ~fenceSyncExt)
        /\ m_eglCreateSyncKHR' = (usable /\ fenceSyncExt)
        /\ m_eglDestroySync' = usable
        /\ m_eglClientWaitSync' = usable
        /\ glLog' = IF WantsSwapInterval(p) THEN <<"SDL_GL_SetSwapInterval(1)">>
                                             ELSE <<"SDL_GL_SetSwapInterval(0)">>
        /\ m_BlockingSwapBuffers' = WantsBlockingSwap(p)
        /\ m_Context' = TRUE
        /\ canUnpackRowLength' = unpack
        /\ UNCHANGED m_InitFailureReason
        /\ ctxCurrent' = ContextAfterInitialize(setupOk)
        /\ phase' = IF fail = "none" THEN "initialized" ELSE "unusable"
        /\ lastResult' = fail

Initialize ==
    /\ UNCHANGED call
    /\ phase = "constructed"
    /\ lastOp' = "initialize"
    /\ UNCHANGED <<fieldVars, driverVars, overlayVars, countVars, lastPlaneCount, ghostVars>>
    /\ \E p \in DecoderParams, fail \in Range(InitFailPoints) :
        LET early(f, reason, context, current) ==
                InitializeReturnsEarly(p, ExtensionsNotRead, f, reason, context, current,
                                       FALSE)
        IN  IF FailsAt(fail, "SDL_VERSION_ATLEAST")
            THEN early(fail, TRUE, FALSE, FALSE)
            ELSE IF p.tenBit
            THEN early("VIDEO_FORMAT_MASK_10BIT", FALSE, FALSE, FALSE)
            ELSE IF ~Passed(fail, "SDL_GL_CreateContext")
            THEN early(fail, TRUE, FALSE, FALSE)
            ELSE IF FailsAt(fail, "SDL_GL_MakeCurrent")
            THEN early(fail, TRUE, TRUE, FALSE)
            ELSE IF ~Passed(fail, "glGetString")
            THEN early(fail, TRUE, TRUE, TRUE)
            ELSE \E unpack \in BOOLEAN :
                IF FailsAt(fail, "eglGetCurrentDisplay")
                THEN InitializeReturnsEarly(p, ExtensionsNotRead, fail, FALSE, TRUE, TRUE,
                                            unpack)
                ELSE \E khrImageBase \in BOOLEAN, khrImage \in BOOLEAN,
                        oesEglImage \in BOOLEAN :
                    LET ext == ExtensionsRead(khrImageBase, khrImage, oesEglImage)
                    IN  IF ~MandatoryExtensionsPresent(khrImageBase, khrImage, oesEglImage)
                        THEN InitializeReturnsEarly(p, ext, "missing extension", FALSE,
                                                    TRUE, TRUE, unpack)
                        ELSE IF ~Passed(fail, "VAO functions")
                        THEN InitializeReturnsEarly(p, ext, fail, FALSE, TRUE, TRUE, unpack)
                        ELSE \E fenceSyncExt \in BOOLEAN, create \in BOOLEAN,
                                destroy \in BOOLEAN, wait \in BOOLEAN :
                            InitializeFinishes(p, ext, fail, unpack, fenceSyncExt, create,
                                               destroy, wait)

(* ------------------------------------------------------------------ *)
(* The overlay manager (Session::getOverlayManager), seen from here     *)
(* ------------------------------------------------------------------ *)

\* something more may still happen to the instance
MayHappen == events < MaxEvents

\* the application switches an overlay on, with or without a first surface
OverlayEnable(type) ==
    /\ UNCHANGED call
    /\ phase = "initialized"
    /\ MayHappen
    /\ ~overlayEnabled[type]
    /\ overlayEnabled' = [overlayEnabled EXCEPT ![type] = TRUE]
    /\ \E surface \in BOOLEAN : overlayPending' = [overlayPending EXCEPT ![type] = surface]
    /\ events' = events + 1
    /\ UNCHANGED <<fieldVars, setupVars, driverVars, frameNo, compileCalls, formatQueries,
                   callVars, ghostVars, ctxCurrent, phase>>

\* the application switches an overlay off; its surface is dropped
OverlayDisable(type) ==
    /\ UNCHANGED call
    /\ phase = "initialized"
    /\ MayHappen
    /\ overlayEnabled[type]
    /\ overlayEnabled' = [overlayEnabled EXCEPT ![type] = FALSE]
    /\ overlayPending' = [overlayPending EXCEPT ![type] = FALSE]
    /\ events' = events + 1
    /\ UNCHANGED <<fieldVars, setupVars, driverVars, frameNo, compileCalls, formatQueries,
                   callVars, ghostVars, ctxCurrent, phase>>

\* the application renders new content for an enabled overlay into a surface
OverlayNewContent(type) ==
    /\ UNCHANGED call
    /\ phase = "initialized"
    /\ MayHappen
    /\ overlayEnabled[type]
    /\ ~overlayPending[type]
    /\ overlayPending' = [overlayPending EXCEPT ![type] = TRUE]
    /\ events' = events + 1
    /\ UNCHANGED <<fieldVars, setupVars, driverVars, overlayEnabled, frameNo, compileCalls,
                   formatQueries, callVars, ghostVars, ctxCurrent, phase>>

(* ------------------------------------------------------------------ *)
(* EGLRenderer::notifyOverlayUpdated                                    *)
(* ------------------------------------------------------------------ *)

\* the call flips the flag of a disabled overlay
FlagFlippedByNotify(enabled, flag) == IF ~enabled THEN 1 - flag ELSE flag

\* lines 132-136: the flag after the call
FlagAfterNotify(enabled, flag) == IF ~enabled THEN 0 ELSE flag

\* the call writes the flag of every slot
EverySlot(type) == OverlayTypes

\* line 134: the slots whose flag the call writes
SlotsWrittenByNotify(type) == {type}

\* lines 126-137: m_OverlayHasValidData after notifyOverlayUpdated(type), from
\* what the overlay manager says of each overlay and the flags before
FlagsAfterNotify(type, enabled, flags) ==
    [t \in OverlayTypes |->
        IF t \in SlotsWrittenByNotify(type)
        THEN FlagAfterNotify(enabled[type], flags[t])
        ELSE flags[t]]

NotifyOverlayUpdated(type) ==
    /\ UNCHANGED call
    /\ phase = "initialized"
    /\ UNCHANGED <<countVars, callVars>>
    /\ m_OverlayHasValidData' =
          FlagsAfterNotify(type, overlayEnabled, m_OverlayHasValidData)
    /\ UNCHANGED <<m_EGLImagePixelFormat, m_ShaderProgram, m_OverlayShaderProgram,
                   m_VideoVAO, m_LastRenderSync, lastFrameFormat, setupVars, driverVars,
                   overlayVars, ghostVars, ctxCurrent, phase>>

(* ------------------------------------------------------------------ *)
(* EGLRenderer::cleanupRenderContext, ::prepareToRender, ::waitToRender *)
(* ------------------------------------------------------------------ *)

\* called by the render thread when it stops; no frame is rendered afterwards
CleanupRenderContext ==
    /\ UNCHANGED call
    /\ phase = "initialized"
    /\ phase' = "stopped"
    /\ ctxCurrent' = "none"
    /\ lastOp' = "cleanupRenderContext"
    /\ lastResult' = "ok"
    /\ lastPlaneCount' = 0
    /\ lastInputs' = NoInputs
    /\ glLog' = <<"SDL_GL_MakeCurrent(nullptr)">>
    /\ UNCHANGED <<fieldVars, setupVars, driverVars, overlayVars, countVars, ghostVars>>

\* whether a call may meet a failure, and what it may find unresolved
MayFail == MayHappen

MayBeMissing == IF MayFail THEN GLMissing ELSE {"none"}

\* lines 1036-1041: the black frame, when glClearColor and glClear resolve
\* lines 1039-1040, 1144, 1216, 1222: whether the back buffer has been cleared
\* since the last swap, once the calls of log have run
RECURSIVE BackBufferAfter(_, _)
BackBufferAfter(log, cleared) ==
    IF log = <<>> THEN cleared
    ELSE BackBufferAfter(Tail(log),
                         IF Head(log) = "glClear" THEN TRUE
                         ELSE IF Head(log) = "SDL_GL_SwapWindow" THEN FALSE
                         ELSE cleared)

PrepareToRenderLog(missing) ==
    <<"SDL_GL_MakeCurrent">>
    \o (IF missing # "clear" THEN <<"glClear", "SDL_GL_SwapWindow">> ELSE <<>>)
    \o <<"SDL_GL_MakeCurrent(nullptr)">>

\* called once by the owner of the renderer, before the render thread starts
PrepareToRender ==
    /\ UNCHANGED call
    /\ phase = "initialized"
    /\ lastOp = "initialize"
    /\ ctxCurrent' = "none"
    /\ lastOp' = "prepareToRender"
    /\ lastResult' = "ok"
    /\ lastPlaneCount' = 0
    /\ lastInputs' = NoInputs
    /\ \E missing \in MayBeMissing \cap {"none", "clear"} :
          /\ glLog' = PrepareToRenderLog(missing)
          /\ backBufferCleared' = BackBufferAfter(PrepareToRenderLog(missing),
                                                  backBufferCleared)
          /\ events' = events + (IF missing = "none" THEN 0 ELSE 1)
    /\ UNCHANGED <<fieldVars, setupVars, driverVars, overlayVars, frameNo, compileCalls,
                   formatQueries, waited, assertFailed, phase>>

\* line 1014
FencePending(sync) == sync # EGL_NO_SYNC

\* waitToRender destroys the fence and keeps the stale handle
StaleSyncAfterWait(sync) == sync

\* line 1018: m_LastRenderSync when waitToRender returns
SyncAfterWait(sync) == EGL_NO_SYNC

WaitToRender ==
    /\ UNCHANGED call
    /\ phase = "initialized"
    /\ ctxCurrent' = "render"
    /\ IF FencePending(m_LastRenderSync)
       THEN /\ glLog' = <<"SDL_GL_MakeCurrent", "eglClientWaitSync(EGL_FOREVER)",
                          "eglDestroySync">>
            /\ liveFences' = liveFences \ {m_LastRenderSync}
            /\ m_LastRenderSync' = SyncAfterWait(m_LastRenderSync)
            /\ assertFailed' = assertFailed \cup
                  (IF m_eglClientWaitSync THEN {} ELSE {"waitToRender:1015"})
       ELSE /\ glLog' = <<"SDL_GL_MakeCurrent", "glFinish">>
            /\ UNCHANGED <<liveFences, m_LastRenderSync, assertFailed>>
    /\ waited' = TRUE
    /\ UNCHANGED backBufferCleared
    /\ lastOp' = "waitToRender"
    /\ lastResult' = "ok"
    /\ lastPlaneCount' = 0
    /\ lastInputs' = NoInputs
    /\ UNCHANGED <<m_EGLImagePixelFormat, m_ShaderProgram, m_OverlayShaderProgram,
                   m_VideoVAO, m_OverlayHasValidData, lastFrameFormat, setupVars,
                   uniformsFormat, exportedImages, freedImages, frameRefs, overlayVars,
                   countVars, phase>>

(* ------------------------------------------------------------------ *)
(* EGLRenderer::testRenderFrame                                         *)
(* ------------------------------------------------------------------ *)

\* line 1244
TestFrameRejected(plane_count) == plane_count <= 0

\* the test at line 1093 misses the failure value
ImportFailedBelowMinusOne(plane_count) == plane_count < -1

\* the test at line 1093 is left out
ImportNeverFailed(plane_count) == FALSE

\* line 1093
ImportFailed(plane_count) == plane_count < 0

\* called with a test frame while the renderer is being chosen, right after
\* initialize()
TestRenderFrame(plane_count) ==
    /\ UNCHANGED call
    /\ phase = "initialized"
    /\ lastOp \in {"initialize", "testRenderFrame"}
    /\ MayHappen
    /\ events' = events + 1
    /\ exportedImages' = exportedImages + (IF plane_count >= 0 THEN 1 ELSE 0)
    /\ lastOp' = "testRenderFrame"
    /\ lastResult' = IF TestFrameRejected(plane_count) THEN "false" ELSE "true"
    /\ lastPlaneCount' = plane_count
    /\ lastInputs' = NoInputs
    /\ glLog' = <<"exportEGLImages">>
    /\ UNCHANGED <<fieldVars, setupVars, liveFences, uniformsFormat, freedImages,
                   frameRefs, overlayVars, frameNo, compileCalls, formatQueries,
                   ghostVars, ctxCurrent, phase>>

(* ------------------------------------------------------------------ *)
(* EGLRenderer::~EGLRenderer                                            *)
(* ------------------------------------------------------------------ *)

\* The object is gone afterwards: its fields keep no value, and the model leaves
\* them as the constructor set them.  A renderer that has rendered is destroyed
\* after its render thread stopped.
\* lines 91-94 are left out
FenceLeftByDestructor(context, sync) == FALSE

\* lines 88, 91: the destructor destroys the fence m_LastRenderSync names
FenceDestroyedByDestructor(context, sync) == context /\ FencePending(sync)

Destructor ==
    /\ UNCHANGED call
    /\ phase \in {"constructed", "unusable", "stopped"}
       \/ (phase = "initialized" /\ frameNo = 0 /\ ~waited)
    /\ phase' = "destroyed"
    /\ lastOp' = "~EGLRenderer"
    /\ lastResult' = "ok"
    /\ lastPlaneCount' = 0
    /\ lastInputs' = NoInputs
    /\ IF m_Context
       THEN /\ glLog' = <<"SDL_GL_MakeCurrent">>
                 \o (IF FenceDestroyedByDestructor(m_Context, m_LastRenderSync)
                     THEN <<"eglDestroySync">> ELSE <<>>)
                 \o (IF m_ShaderProgram # 0 THEN <<"glDeleteProgram">> ELSE <<>>)
                 \o (IF m_OverlayShaderProgram # 0 THEN <<"glDeleteProgram">> ELSE <<>>)
                 \o <<"SDL_GL_DeleteContext">>
            /\ liveFences' = IF FenceDestroyedByDestructor(m_Context, m_LastRenderSync)
                             THEN liveFences \ {m_LastRenderSync}
                             ELSE liveFences
            /\ assertFailed' = assertFailed \cup
                  (IF FencePending(m_LastRenderSync) /\ ~m_eglDestroySync
                   THEN {"~EGLRenderer:92"} ELSE {})
            /\ ctxCurrent' = "destructor"
       ELSE /\ glLog' = <<>>
            /\ UNCHANGED <<liveFences, assertFailed, ctxCurrent>>
    /\ m_EGLImagePixelFormat' = AV_PIX_FMT_NONE
    /\ m_ShaderProgram' = 0
    /\ m_OverlayShaderProgram' = 0
    /\ m_VideoVAO' = 0
    /\ m_LastRenderSync' = EGL_NO_SYNC
    /\ m_OverlayHasValidData' = [t \in OverlayTypes |-> 0]
    /\ lastFrameFormat' = NoFrameFormat
    /\ m_Context' = FALSE
    /\ m_BlockingSwapBuffers' = FALSE
    /\ m_eglCreateSync' = FALSE
    /\ m_eglCreateSyncKHR' = FALSE
    /\ m_eglDestroySync' = FALSE
    /\ m_eglClientWaitSync' = FALSE
    /\ canUnpackRowLength' = FALSE
    /\ UNCHANGED <<m_InitFailureReason, uniformsFormat, exportedImages, freedImages,
                   frameRefs, overlayVars, countVars, waited, backBufferCleared>>

(* ------------------------------------------------------------------ *)
(* EGLRenderer::compileShaders                                          *)
(* ------------------------------------------------------------------ *)

\* The driver calls of compileShaders() that can fail, in the order the code
\* makes them; "none" when every one of them succeeds
CompileFailPoints == <<"glGetUniformLocation", "video program", "overlay program",
                       "buffer functions", "glGetError", "none">>

\* the test of line 443 also takes the opaque layout
IsTwoPlaneOrOpaque(fmt) ==
    fmt \in {"AV_PIX_FMT_NV12", "AV_PIX_FMT_P010", "AV_PIX_FMT_DRM_PRIME"}

\* line 443
IsTwoPlane(fmt) == fmt \in {"AV_PIX_FMT_NV12", "AV_PIX_FMT_P010"}

\* the test of line 467 also takes a planar layout
IsOpaqueOrPlanar(fmt) == fmt \in {"AV_PIX_FMT_DRM_PRIME", "AV_PIX_FMT_YUV420P"}

\* line 467
IsOpaque(fmt) == fmt = "AV_PIX_FMT_DRM_PRIME"

\* lines 428-431: the assertions on entry
CompileEntryAsserts(fmt, shader, overlay) ==
    (IF shader # 0 THEN {"compileShaders:428"} ELSE {})
    \cup (IF overlay # 0 THEN {"compileShaders:429"} ELSE {})
    \cup (IF fmt = AV_PIX_FMT_NONE THEN {"compileShaders:431"} ELSE {})

\* The fields compileShaders() leaves behind, the compileShader() calls it makes
\* (lines 444, 468, 494) and what it returns.  shader, overlay and vao are the
\* fields on entry; calls is the number of earlier calls, and the driver hands out
\* names no earlier call was given.
CompileShaders(fmt, shader, overlay, vao, calls, fail) ==
    LET entry == CompileEntryAsserts(fmt, shader, overlay)
        at(f) == fail = f
        r(ok, s, o, v, variant, built, asserts) ==
            [ok |-> ok, shader |-> s, overlay |-> o, vao |-> v,
             variant |-> variant, built |-> built, asserts |-> asserts]
        newShader == 2 * calls + 1
        newOverlay == 2 * calls + 2
        newVao == calls + 1
        variant == IF IsTwoPlane(fmt) THEN "egl_nv12.frag" ELSE "egl_opaque.frag"
        video == <<"compileShader(" \o variant \o ")">>
        both == video \o <<"compileShader(egl_overlay.frag)">>
    IN  IF at("glGetUniformLocation")
        THEN r(FALSE, shader, overlay, vao, "none", <<>>, entry)
        ELSE IF ~(IsTwoPlane(fmt) \/ IsOpaque(fmt))
        THEN r(FALSE, shader, overlay, vao, "none", <<>>,
               entry \cup {"compileShaders:490"})
        ELSE IF at("video program")
        THEN r(FALSE, 0, overlay, vao, "none", video, entry)
        ELSE IF at("overlay program")
        THEN r(FALSE, newShader, 0, vao, variant, both, entry)
        ELSE IF at("buffer functions")
        THEN r(FALSE, newShader, newOverlay, vao, variant, both, entry)
        ELSE r(at("none"), newShader, newOverlay, newVao, variant, both, entry)

(* ------------------------------------------------------------------ *)
(* EGLRenderer::renderOverlay                                           *)
(* ------------------------------------------------------------------ *)

\* no overlay is ever taken as disabled
NeverDisabled(type) == FALSE

\* line 179: the overlay manager reports the overlay as disabled
OverlayDisabled(type) == ~overlayEnabled[type]

\* the surface is fetched (line 184) before the overlay is found disabled
TakesSurfaceFirst(type, st) == [st EXCEPT !.pending[type] = FALSE]

\* lines 185-264: the flag is set to 1 in this call; line 264 is reached whenever
\* a new surface was fetched and malloc() did not fail, whether or not
\* glTexImage2D (213) and glBufferData (262) resolved
FlagSetAfterSurface(newSurface, allocFails, missing) == newSurface /\ ~allocFails

\* lines 271-294 are left out
OverlayNeverDrawn(allocFails, flag) == FALSE

\* lines 201-204, 266-269: the call goes on to the draw of lines 271-294
OverlayDrawn(allocFails, flag) == ~allocFails /\ flag # 0

\* lines 179-181: the return for a disabled overlay
ReturnsAtOnce(type, st) == st

\* One call of renderOverlay(type).  st holds the validity flags, the surfaces
\* waiting in the overlay manager and the calls made so far; nomem says that the
\* surface is not tightly packed and malloc() fails; missing is the GL entry point
\* family that does not resolve ("upload": glTexImage2D and glBufferData).
RenderOverlay(type, st, nomem, missing) ==
    IF OverlayDisabled(type)
    THEN ReturnsAtOnce(type, st)
    ELSE LET newSurface == st.pending[type]
             taken == [st.pending EXCEPT ![type] = FALSE]
             allocFails == newSurface /\ nomem /\ ~canUnpackRowLength
             valid1 == IF FlagSetAfterSurface(newSurface, allocFails, missing)
                       THEN [st.valid EXCEPT ![type] = 1]
                       ELSE st.valid
             upload == IF ~newSurface THEN <<>>
                       ELSE <<"glBindTexture:" \o type>>
                            \o (IF allocFails \/ missing = "upload" THEN <<>>
                                ELSE <<"glTexImage2D:" \o type, "glBufferData:" \o type>>)
             draw == IF OverlayDrawn(allocFails, valid1[type])
                     THEN (IF missing # "viewport" THEN <<"glViewport(drawable)">>
                           ELSE <<>>)
                          \o (IF missing # "blend" THEN <<"glEnable(GL_BLEND)">> ELSE <<>>)
                          \o <<"glDrawArrays:" \o type>>
                          \o (IF missing # "blend" THEN <<"glDisable(GL_BLEND)">> ELSE <<>>)
                     ELSE <<>>
         IN  [valid |-> valid1, pending |-> taken, log |-> st.log \o upload \o draw]

\* lines 184-185: some call of renderOverlay in this frame fetches a new surface
SurfaceFetched == \E t \in OverlayTypes : overlayEnabled[t] /\ overlayPending[t]

\* lines 266-294: some call of renderOverlay in this frame may reach the draw
OverlayDrawReached ==
    \E t \in OverlayTypes :
       overlayEnabled[t] /\ (overlayPending[t] \/ m_OverlayHasValidData[t] # 0)

\* lines 184-202: some call of renderOverlay in this frame reaches malloc()
MallocCalled == ~canUnpackRowLength /\ SurfaceFetched

\* lines 1212-1214: the slots from i on, in order
RECURSIVE RenderOverlays(_, _, _, _)
RenderOverlays(i, st, nomem, missing) ==
    IF i > Len(OverlayOrder)
    THEN st
    ELSE RenderOverlays(i + 1, RenderOverlay(OverlayOrder[i], st, nomem, missing),
                        nomem, missing)

(* ------------------------------------------------------------------ *)
(* EGLRenderer::renderFrame                                             *)
(* ------------------------------------------------------------------ *)

\* the layout is looked up on every frame
SpecializesEveryFrame(fmt) == TRUE

\* line 1057
NeedsSpecialization(fmt) == fmt = AV_PIX_FMT_NONE

\* line 1065: m_EGLImagePixelFormat after compileShaders() failed
FormatAfterCompileFailure(fmt) == AV_PIX_FMT_NONE

\* the failure path returns without pushing the event
NoResetSignal(ok) == <<>>

\* lines 1064-1078: the event pushed when compileShaders() returned ok
ResetSignal(ok) == IF ok THEN <<>> ELSE <<"SDL_PushEvent(SDL_RENDER_TARGETS_RESET)">>

\* the layout the backend reported to this renderFrame, when it was asked
NotAsked == "not asked"

\* what one call of renderFrame() was answered: the layout, and the family of GL
\* entry points that did not resolve
RenderFrameInputs(backendFmt, missing, nomem) ==
    [of |-> "renderFrame", backendFmt |-> backendFmt, missing |-> missing,
     nomem |-> nomem]

\* lines 1057-1080 when the format is still unknown: the backend reports
\* backendFmt and the driver fails compileShaders() at `fail`
Specialize(backendFmt, fail) ==
    LET c == CompileShaders(backendFmt, m_ShaderProgram, m_OverlayShaderProgram,
                            m_VideoVAO, compileCalls, fail)
    IN  [ran |-> TRUE, ok |-> c.ok,
         format |-> IF c.ok THEN backendFmt ELSE FormatAfterCompileFailure(backendFmt),
         shader |-> c.shader, overlay |-> c.overlay, vao |-> c.vao,
         asserts |-> c.asserts, backendFmt |-> backendFmt,
         log |-> <<"getEGLImagePixelFormat", "compileShaders">> \o c.built
                 \o ResetSignal(c.ok)]

\* lines 1057-1080 when the format is already known
AlreadySpecialized ==
    [ran |-> FALSE, ok |-> TRUE, format |-> m_EGLImagePixelFormat,
     shader |-> m_ShaderProgram, overlay |-> m_OverlayShaderProgram, vao |-> m_VideoVAO,
     asserts |-> {}, backendFmt |-> NotAsked, log |-> <<>>]

\* lines 1112-1135: one image bound per exported plane
BindLog(plane_count) == [i \in 1..plane_count |-> "glEGLImageTargetTexture2DOES"]

\* lines 1143-1145: the clear before the draw
ClearsBeforeDraw(blocking, missing) == ~blocking /\ missing # "clear"

\* hasFrameFormatChanged(frame) is not consulted
UploadsForEveryFrame(fmt, frame, lastFormat, missing) ==
    /\ fmt \in {"AV_PIX_FMT_NV12", "AV_PIX_FMT_P010"}
    /\ missing # "uniform"

\* lines 1173, 1183: the conversion constants are uploaded
UploadsConstants(fmt, frame, lastFormat, missing) ==
    /\ frame # lastFormat
    /\ IsTwoPlane(fmt)
    /\ missing # "uniform"

\* lines 1195-1209 are left out
FenceBeforeSwapNever(blocking, waitFn) == FALSE

\* the test of line 1195 is inverted
FenceBeforeSwapInverted(blocking, waitFn) == blocking /\ waitFn

\* lines 1195-1199: a fence is inserted between the draw and the swap
FenceBeforeSwap(blocking, waitFn) == ~blocking /\ waitFn

\* lines 1218-1223: a fence is inserted after the swap
FenceAfterSwap(blocking, waitFn) == blocking /\ waitFn

\* line 1222 is left out
NoClearAfterSwap(blocking, missing) == FALSE

\* lines 1218-1222: the clear after the swap
ClearsAfterSwap(blocking, missing) == blocking /\ missing # "clear"

\* lines 1200, 1224: the assertion guarding a fence creation
FenceAssert(sync, site) == IF sync # EGL_NO_SYNC THEN {site} ELSE {}

\* the frames whose reference renderFrame drops, and the frames it keeps a
\* reference to, when it returns: the code neither references nor frees `frame`
FramesHeldAfterRender(held, n) == held

\* how renderFrame returns
RenderResult(sp, plane_count, missing) ==
    IF ~sp.ok THEN "resetRequested"
    ELSE IF ImportFailed(plane_count) THEN "importFailed"
    ELSE IF missing = "bind" THEN "noBindFunctions"
    ELSE IF missing = "draw" THEN "noDrawFunctions"
    ELSE "presented"

\* The whole of renderFrame(frame) once lines 1057-1080 have produced sp; missing
\* is the GL entry point family that does not resolve in this call
RenderFrameBody(frame, plane_count, nomem, missing, sp) ==
    LET result == RenderResult(sp, plane_count, missing)
        exported == result # "resetRequested" /\ plane_count >= 0
        bound == result \in {"noDrawFunctions", "presented"}
        drawn == result = "presented"
        uploads == drawn /\ UploadsConstants(sp.format, frame, lastFrameFormat, missing)
        fence1 == drawn /\ FenceBeforeSwap(m_BlockingSwapBuffers, m_eglClientWaitSync)
        fence2 == drawn /\ FenceAfterSwap(m_BlockingSwapBuffers, m_eglClientWaitSync)
        ov0 == [valid |-> m_OverlayHasValidData, pending |-> overlayPending, log |-> <<>>]
        ov == IF drawn THEN RenderOverlays(1, ov0, nomem, missing) ELSE ov0
        log == <<"SDL_GL_MakeCurrent">> \o sp.log
               \o (IF result = "resetRequested" THEN <<>> ELSE <<"exportEGLImages">>)
               \o (IF bound THEN BindLog(plane_count) ELSE <<>>)
               \o (IF bound /\ ClearsBeforeDraw(m_BlockingSwapBuffers, missing)
                   THEN <<"glClear">> ELSE <<>>)
               \o (IF bound /\ missing # "viewport" THEN <<"glViewport(dst)">> ELSE <<>>)
               \o (IF drawn THEN <<"glUseProgram">> ELSE <<>>)
               \o (IF uploads THEN <<"glUniformMatrix3fv">> ELSE <<>>)
               \o (IF drawn THEN <<"glDrawArrays">> ELSE <<>>)
               \o (IF fence1 THEN <<"eglCreateSync">> ELSE <<>>)
               \o ov.log
               \o (IF drawn THEN <<"SDL_GL_SwapWindow">> ELSE <<>>)
               \o (IF drawn /\ ClearsAfterSwap(m_BlockingSwapBuffers, missing)
                   THEN <<"glClear">> ELSE <<>>)
               \o (IF fence2 THEN <<"eglCreateSync">> ELSE <<>>)
    IN  /\ m_EGLImagePixelFormat' = sp.format
        /\ m_ShaderProgram' = sp.shader
        /\ m_OverlayShaderProgram' = sp.overlay
        /\ m_VideoVAO' = sp.vao
        /\ compileCalls' = compileCalls + (IF sp.ran THEN 1 ELSE 0)
        /\ formatQueries' = formatQueries + (IF sp.ran THEN 1 ELSE 0)
        /\ exportedImages' = exportedImages + (IF exported THEN 1 ELSE 0)
        /\ UNCHANGED freedImages
        /\ frameRefs' = FramesHeldAfterRender(frameRefs, frameNo + 1)
        /\ lastFrameFormat' = IF drawn THEN frame ELSE lastFrameFormat
        /\ uniformsFormat' = IF uploads THEN frame ELSE uniformsFormat
        /\ m_OverlayHasValidData' = ov.valid
        /\ overlayPending' = ov.pending
        /\ UNCHANGED overlayEnabled
        \* the fence a frame creates is named by the frame's number
        /\ IF fence1 \/ fence2
           THEN /\ m_LastRenderSync' = frameNo + 1
                /\ liveFences' = liveFences \cup {frameNo + 1}
           ELSE UNCHANGED <<m_LastRenderSync, liveFences>>
        /\ assertFailed' = assertFailed \cup sp.asserts
              \cup (IF fence1 THEN FenceAssert(m_LastRenderSync, "renderFrame:1200") ELSE {})
              \cup (IF fence2 THEN FenceAssert(m_LastRenderSync, "renderFrame:1224") ELSE {})
        /\ events' = events + (IF result # "presented" \/ missing # "none" \/ nomem
                               THEN 1 ELSE 0)
        /\ lastOp' = "renderFrame"
        /\ lastResult' = result
        /\ lastPlaneCount' = IF result = "resetRequested" THEN 0 ELSE plane_count
        /\ lastInputs' = RenderFrameInputs(sp.backendFmt, missing, nomem)
        /\ glLog' = log
        /\ backBufferCleared' = BackBufferAfter(log, backBufferCleared)

\* the inputs renderFrame reads once lines 1057-1080 have produced sp: each is
\* drawn only on the path that reads it
RenderFrameFrom(sp) ==
    IF ~sp.ok
    THEN RenderFrameBody(NoFrameFormat, 0, FALSE, "none", sp)
    ELSE \E plane_count \in {n \in PlaneCounts : MayFail \/ ~ImportFailed(n)} :
        IF ImportFailed(plane_count)
        THEN RenderFrameBody(NoFrameFormat, plane_count, FALSE, "none", sp)
        ELSE \E missing \in {m \in MayBeMissing :
                                 /\ m = "upload" => SurfaceFetched
                                 /\ m = "blend" => OverlayDrawReached} :
            IF missing \in {"bind", "draw"}
            THEN RenderFrameBody(NoFrameFormat, plane_count, FALSE, missing, sp)
            ELSE \E frame \in FrameFormats, nomem \in {FALSE, MayFail /\ MallocCalled} :
                RenderFrameBody(frame, plane_count, nomem, missing, sp)

\* The caller runs waitToRender before every renderFrame.
RenderFrame ==
    /\ UNCHANGED call
    /\ phase = "initialized"
    /\ waited
    /\ frameNo < MaxFrames
    /\ frameNo' = frameNo + 1
    /\ ctxCurrent' = "render"
    /\ waited' = FALSE
    /\ UNCHANGED <<setupVars, phase>>
    /\ IF NeedsSpecialization(m_EGLImagePixelFormat)
       THEN \E backendFmt \in PixelFormats, fail \in Range(CompileFailPoints) :
               /\ MayFail \/ CompileShaders(backendFmt, 0, 0, 0, 0, fail).ok
               /\ RenderFrameFrom(Specialize(backendFmt, fail))
       ELSE RenderFrameFrom(AlreadySpecialized)

(* ------------------------------------------------------------------ *)
(* The specification                                                    *)
(* ------------------------------------------------------------------ *)

Next ==
    \/ Initialize
    \/ PrepareToRender
    \/ WaitToRender
    \/ RenderFrame
    \/ \E plane_count \in PlaneCounts : TestRenderFrame(plane_count)
    \/ \E type \in OverlayTypes : OverlayEnable(type)
    \/ \E type \in OverlayTypes : OverlayDisable(type)
    \/ \E type \in OverlayTypes : OverlayNewContent(type)
    \/ \E type \in OverlayTypes : NotifyOverlayUpdated(type)
    \/ CleanupRenderContext
    \/ Destructor

Spec == Init /\ [][Next]_vars

(* ------------------------------------------------------------------ *)
(* Computations that read and write no field                            *)
(* ------------------------------------------------------------------ *)

\* the state-change flag words looked at have this many bits
FlagBits == 3

FlagWords == 0 .. (2^FlagBits - 1)

\* renderer.h: the two state-change bits the renderer knows
WINDOW_STATE_CHANGE_SIZE == 1

WINDOW_STATE_CHANGE_DISPLAY == 2

\* C's & and | on non-negative integers
RECURSIVE BitAnd(_, _)
BitAnd(a, b) ==
    IF a = 0 \/ b = 0 THEN 0
    ELSE (a % 2) * (b % 2) + 2 * BitAnd(a \div 2, b \div 2)

RECURSIVE BitOr(_, _)
BitOr(a, b) ==
    IF a = 0 THEN b
    ELSE IF b = 0 THEN a
    ELSE (IF a % 2 = 1 \/ b % 2 = 1 THEN 1 ELSE 0) + 2 * BitOr(a \div 2, b \div 2)

\* C's ~ on the low FlagBits bits; the higher bits of every flag word looked at
\* are zero, so they drop out of the & of line 142
BitNot(a) == (2^FlagBits - 1) - a

\* only a size change is absorbed
AbsorbsSizeOnly(flags) == BitAnd(flags, BitNot(WINDOW_STATE_CHANGE_SIZE)) = 0

\* line 142: the value notifyWindowChanged returns for info->stateChangeFlags
AbsorbsWindowChange(flags) ==
    BitAnd(flags, BitNot(BitOr(WINDOW_STATE_CHANGE_SIZE, WINDOW_STATE_CHANGE_DISPLAY))) = 0

\* the calls of notifyWindowChanged looked at, before they run
WindowChangeCalls ==
    {[fn |-> "notifyWindowChanged", flags |-> f, done |-> FALSE, result |-> FALSE] :
        f \in FlagWords}

\* lines 139-143
NotifyWindowChanged ==
    /\ call.fn = "notifyWindowChanged"
    /\ ~call.done
    /\ call' = [call EXCEPT !.done = TRUE, !.result = AbsorbsWindowChange(call.flags)]
    /\ UNCHANGED rendererVars

\* frame and drawable sizes looked at run from 1 to MaxDim pixels a side
MaxDim == 4

Dims == 1 .. MaxDim

\* how "frame size x scale, rounded" turns a quotient into a pixel count
Roundings == {"down", "nearest", "up"}

\* n / d as a pixel count, n >= 0 and d > 0
Rounded(n, d, rounding) ==
    IF rounding = "down" THEN n \div d
    ELSE IF rounding = "up" THEN (n + d - 1) \div d
    ELSE (2 * n + d) \div (2 * d)

\* StreamUtils::scaleSourceToDestinationSurface(&src, &dst): dst shrinks to the
\* size of src times min(dst.w/src.w, dst.h/src.h) and moves by half of what is
\* left over on each axis
ScaleSourceToDestinationSurface(src, dst, rounding) ==
    IF dst.w * src.h <= dst.h * src.w
    THEN LET h == Rounded(src.h * dst.w, src.w, rounding)
         IN  [x |-> dst.x, y |-> dst.y + (dst.h - h) \div 2, w |-> dst.w, h |-> h]
    ELSE LET w == Rounded(src.w * dst.h, src.h, rounding)
         IN  [x |-> dst.x + (dst.w - w) \div 2, y |-> dst.y, w |-> w, h |-> dst.h]

\* the video is stretched over the whole drawable
WholeDrawable(width, height, drawableWidth, drawableHeight, rounding) ==
    [x |-> 0, y |-> 0, w |-> drawableWidth, h |-> drawableHeight]

\* lines 1082-1090: the rectangle renderFrame hands to glViewport (line 1150) for
\* a frame of width x height and a drawable of drawableWidth x drawableHeight
VideoViewport(width, height, drawableWidth, drawableHeight, rounding) ==
    ScaleSourceToDestinationSurface(
        [x |-> 0, y |-> 0, w |-> width, h |-> height],
        [x |-> 0, y |-> 0, w |-> drawableWidth, h |-> drawableHeight],
        rounding)

NoRect == [x |-> 0, y |-> 0, w |-> 0, h |-> 0]

ViewportCall(fw, fh, dw, dh, rounding) ==
    [fn |-> "viewport", width |-> fw, height |-> fh, drawableWidth |-> dw,
     drawableHeight |-> dh, rounding |-> rounding, done |-> FALSE, dst |-> NoRect]

\* the frames and drawables looked at: every size up to MaxDim a side, and the
\* two sizes of a 1080p and a 1920x800 stream
ViewportCalls ==
    {ViewportCall(fw, fh, dw, dh, r) : fw \in Dims, fh \in Dims, dw \in Dims,
                                       dh \in Dims, r \in Roundings}
    \cup {ViewportCall(1920, 1080, 1280, 720, r) : r \in Roundings}
    \cup {ViewportCall(1920, 800, 1920, 1080, r) : r \in Roundings}

\* lines 1082-1090, 1150 of renderFrame
RenderFrameViewport ==
    /\ call.fn = "viewport"
    /\ ~call.done
    /\ call' = [call EXCEPT !.done = TRUE,
                            !.dst = VideoViewport(call.width, call.height,
                                                  call.drawableWidth, call.drawableHeight,
                                                  call.rounding)]
    /\ UNCHANGED rendererVars

\* renderer.h: the length of m_Textures and of renderFrame's imgs
EGL_MAX_PLANES == 4

\* the plane counts of a successful import looked at run from 0 to MaxPlaneCount
MaxPlaneCount == 5

\* only the width decides the filter
FilterByWidth(dst, width, height) ==
    IF dst.w % width = 0 THEN "GL_NEAREST" ELSE "GL_LINEAR"

\* lines 1125-1132: the filter glTexParameteri is called with
PlaneFilter(dst, width, height) ==
    IF dst.w % width = 0 /\ dst.h % height = 0 THEN "GL_NEAREST" ELSE "GL_LINEAR"

\* the texture keeps the filter it had
FilterKept == "kept"

\* what a read past the end of m_Textures or imgs may find: a word that names no
\* object (-1), or one that names the first object (0)
StrayWords == {-1, 0}

\* lines 1113-1115: m_Textures[i] and imgs[i]; both arrays have EGL_MAX_PLANES
\* elements, and a read past the end finds `stray`
ElementRead(i, stray) == IF i < EGL_MAX_PLANES THEN i ELSE stray

\* lines 1112-1135: the body of the loop for plane i
BindPlane(i, filter, stray) ==
    [plane |-> i, unit |-> i, texture |-> ElementRead(i, stray),
     image |-> ElementRead(i, stray), filter |-> filter]

\* lines 1112-1135: the loop over the planes of the import; texParameteri says
\* that glTexParameteri resolved
BindPlanes(plane_count, dst, width, height, texParameteri, stray) ==
    [k \in 1 .. plane_count |->
        BindPlane(k - 1,
                  IF texParameteri THEN PlaneFilter(dst, width, height) ELSE FilterKept,
                  stray[k])]

BindCalls ==
    {[fn |-> "bindPlanes", width |-> fw, height |-> fh, drawableWidth |-> dw,
      drawableHeight |-> dh, rounding |-> r, plane_count |-> n, texParameteri |-> t,
      done |-> FALSE, dst |-> NoRect, bound |-> <<>>] :
        fw \in Dims, fh \in Dims, dw \in Dims, dh \in Dims, r \in Roundings,
        n \in 0 .. MaxPlaneCount, t \in BOOLEAN}

\* lines 1082-1135 of renderFrame, once the import returned call.plane_count and
\* glActiveTexture and glBindTexture resolved
RenderFrameBindPlanes ==
    /\ call.fn = "bindPlanes"
    /\ ~call.done
    /\ LET dst == VideoViewport(call.width, call.height, call.drawableWidth,
                                call.drawableHeight, call.rounding)
       IN  \E stray \in [1 .. call.plane_count -> StrayWords] :
              \* the words past the end are looked at only by the reads past the end
              /\ \A k \in 1 .. call.plane_count :
                    k - 1 < EGL_MAX_PLANES => stray[k] = 0
              /\ call' = [call EXCEPT
                             !.done = TRUE,
                             !.dst = dst,
                             !.bound = BindPlanes(call.plane_count, dst, call.width,
                                                  call.height, call.texParameteri, stray)]
    /\ UNCHANGED rendererVars

\* renderOverlay(type) called with the flags `valid` in m_OverlayHasValidData and
\* the surfaces `pending` waiting in the overlay manager
RenderOverlayCalls ==
    {[fn |-> "renderOverlay", type |-> t, nomem |-> m, missing |-> "none",
      done |-> FALSE,
      before |-> [valid |-> v, pending |-> p, log |-> <<>>],
      after |-> [valid |-> v, pending |-> p, log |-> <<>>]] :
        t \in OverlayTypes, m \in BOOLEAN, v \in [OverlayTypes -> {0, 1}],
        p \in [OverlayTypes -> BOOLEAN]}

\* lines 157-295, for the overlays as the overlay manager has them
RenderOverlayOnce ==
    /\ call.fn = "renderOverlay"
    /\ ~call.done
    /\ call' = [call EXCEPT !.done = TRUE,
                            !.after = RenderOverlay(call.type, call.before, call.nomem,
                                                    call.missing)]
    /\ UNCHANGED rendererVars

\* notifyOverlayUpdated(type) called with the overlays enabled as in `enabled`
\* and the flags `before` in m_OverlayHasValidData
NotifyCalls ==
    {[fn |-> "notifyOverlayUpdated", type |-> t, enabled |-> e, before |-> v,
      done |-> FALSE, after |-> v] :
        t \in OverlayTypes, e \in [OverlayTypes -> BOOLEAN],
        v \in [OverlayTypes -> {0, 1}]}

\* lines 126-137, seen from the caller
NotifyOverlayUpdatedOnce ==
    /\ call.fn = "notifyOverlayUpdated"
    /\ ~call.done
    /\ call' = [call EXCEPT
                   !.done = TRUE,
                   !.after = FlagsAfterNotify(call.type, call.enabled, call.before)]
    /\ UNCHANGED rendererVars

\* One renderOverlay(type) on the render thread, step by step, while the overlay
\* manager's thread switches the overlay off and calls notifyOverlayUpdated(type)
\* (line 129: "called on an arbitrary thread").  enabled and pending are what
\* the overlay manager holds for the overlay, valid is m_OverlayHasValidData[type],
\* at is the line the render thread has reached, manager is how far the other
\* thread has got.
INTERLEAVED == "renderOverlay || notifyOverlayUpdated"

InterleavedCalls ==
    {[fn |-> INTERLEAVED, type |-> t, done |-> FALSE, enabled |-> TRUE,
      pending |-> p, valid |-> v, at |-> 179, newSurface |-> FALSE, drawn |-> FALSE,
      manager |-> "idle"] :
        t \in OverlayTypes, p \in BOOLEAN, v \in {0, 1}}

\* line 179 on the render thread
RenderOverlayTestsEnabled ==
    /\ call.fn = INTERLEAVED
    /\ call.at = 179
    /\ call' = IF call.enabled
               THEN [call EXCEPT !.at = 184]
               ELSE [call EXCEPT !.at = 295, !.done = TRUE]
    /\ UNCHANGED rendererVars

\* line 184 on the render thread: the surface is taken from the overlay manager
RenderOverlayFetchesSurface ==
    /\ call.fn = INTERLEAVED
    /\ call.at = 184
    /\ call' = [call EXCEPT !.newSurface = call.pending,
                            !.pending = FALSE,
                            !.at = IF call.pending THEN 188 ELSE 266]
    /\ UNCHANGED rendererVars

\* lines 188-264 on the render thread: the upload, and the flag set at 264
RenderOverlayUploads ==
    /\ call.fn = INTERLEAVED
    /\ call.at = 188
    /\ \E allocFails \in BOOLEAN :
          call' = IF allocFails
                  THEN [call EXCEPT !.at = 295, !.done = TRUE]
                  ELSE [call EXCEPT
                          !.valid = IF FlagSetAfterSurface(call.newSurface, allocFails,
                                                           "none")
                                    THEN 1 ELSE call.valid,
                          !.at = 266]
    /\ UNCHANGED rendererVars

\* lines 266-294 on the render thread: the test of the flag and the draw
RenderOverlayDraws ==
    /\ call.fn = INTERLEAVED
    /\ call.at = 266
    /\ call' = [call EXCEPT !.drawn = OverlayDrawn(FALSE, call.valid),
                            !.at = 295, !.done = TRUE]
    /\ UNCHANGED rendererVars

\* the overlay manager's thread switches the overlay off and drops its surface
ManagerDisablesOverlay ==
    /\ call.fn = INTERLEAVED
    /\ call.manager = "idle"
    /\ call' = [call EXCEPT !.enabled = FALSE, !.pending = FALSE,
                            !.manager = "notifying"]
    /\ UNCHANGED rendererVars

\* lines 126-137 on the overlay manager's thread
ManagerNotifies ==
    /\ call.fn = INTERLEAVED
    /\ call.manager = "notifying"
    /\ call' = [call EXCEPT !.valid = FlagAfterNotify(call.enabled, call.valid),
                            !.manager = "notified"]
    /\ UNCHANGED rendererVars

PendingCalls ==
    WindowChangeCalls \cup ViewportCalls \cup BindCalls \cup RenderOverlayCalls
       \cup NotifyCalls \cup InterleavedCalls

\* the renderer after construction and one call about to be made
CallInit ==
    /\ RendererInit
    /\ call \in PendingCalls

CallNext ==
    \/ NotifyWindowChanged
    \/ RenderFrameViewport
    \/ RenderFrameBindPlanes
    \/ RenderOverlayOnce
    \/ NotifyOverlayUpdatedOnce
    \/ RenderOverlayTestsEnabled
    \/ RenderOverlayFetchesSurface
    \/ RenderOverlayUploads
    \/ RenderOverlayDraws
    \/ ManagerDisablesOverlay
    \/ ManagerNotifies

CallSpec == CallInit /\ [][CallNext]_vars

(* ------------------------------------------------------------------ *)
(* Properties                                                          *)
(* ------------------------------------------------------------------ *)

Logged(e) == e \in Range(glLog)

Times(e) == Cardinality(Positions(glLog, e))

RESET_EVENT == "SDL_PushEvent(SDL_RENDER_TARGETS_RESET)"

\* the calls renderOverlay makes for any slot
OverlayCalls ==
    UNION {{"glTexImage2D:" \o t, "glBufferData:" \o t, "glBindTexture:" \o t,
            "glDrawArrays:" \o t} : t \in OverlayTypes}

\* this step is a renderFrame call
IsRenderFrameStep == frameNo' = frameNo + 1

\* C1: with a waitToRender before every renderFrame, at most one fence is
\* outstanding at any time, and it is the one m_LastRenderSync names; the
\* assertions at the two creation sites (lines 1200 and 1224) never fail.
C1_AtMostOneFence ==
    /\ Cardinality(liveFences) <= 1
    /\ liveFences = (IF FencePending(m_LastRenderSync) THEN {m_LastRenderSync} ELSE {})
    /\ "renderFrame:1200" \notin assertFailed
    /\ "renderFrame:1224" \notin assertFailed

\* the second of two presented frames has created its fence after the first
\* frame's fence was waited on and destroyed
C1_Witness ==
    /\ lastOp = "renderFrame"
    /\ frameNo = 2
    /\ events = 0
    /\ lastResult = "presented"
    /\ m_LastRenderSync = 2
    /\ liveFences = {2}

C4_AtMostOneUnreleased == exportedImages - freedImages <= 1

\* C5: a renderFrame whose import returned a negative plane count has issued no
\* draw call, composited no overlay, swapped no buffer and created no fence.
C5_ImportFailureAborts ==
    (lastOp = "renderFrame" /\ lastPlaneCount < 0)
        => /\ ~Logged("glDrawArrays")
           /\ Range(glLog) \cap OverlayCalls = {}
           /\ ~Logged("SDL_GL_SwapWindow")
           /\ ~Logged("eglCreateSync")

\* the import failed on a renderer that would have drawn an overlay and created
\* a fence
C5_Witness ==
    /\ lastOp = "renderFrame"
    /\ lastPlaneCount < 0
    /\ m_eglClientWaitSync
    /\ \E t \in OverlayTypes : overlayEnabled[t] /\ overlayPending[t]

\* C6 as stated: every renderFrame whose import fails, the first call on an
\* instance included, leaves the layout, both program handles, the pending fence
\* and the overlay validity flags as they were.
C6_ImportFailureChangesNothing ==
    [][(IsRenderFrameStep /\ lastPlaneCount' < 0)
          => UNCHANGED <<m_EGLImagePixelFormat, m_ShaderProgram, m_OverlayShaderProgram,
                         m_LastRenderSync, m_OverlayHasValidData>>]_vars

\* C6 as amended: every renderFrame whose import fails leaves the pending fence
\* and the overlay validity flags as they were, and, when the layout was already
\* known on entry, the layout and both program handles too.
C6_ImportFailureAfterSpecialization ==
    [][(IsRenderFrameStep /\ lastPlaneCount' < 0)
          => /\ UNCHANGED <<m_LastRenderSync, m_OverlayHasValidData>>
             /\ m_EGLImagePixelFormat # AV_PIX_FMT_NONE
                   => UNCHANGED <<m_EGLImagePixelFormat, m_ShaderProgram,
                                  m_OverlayShaderProgram>>]_vars

\* the import of frame 2 failed on a specialised renderer with a valid overlay
C6_Witness ==
    /\ lastOp = "renderFrame"
    /\ lastPlaneCount < 0
    /\ frameNo = 2
    /\ compileCalls = 1
    /\ m_ShaderProgram # 0
    /\ \E t \in OverlayTypes : m_OverlayHasValidData[t] = 1

\* C7: a renderFrame whose compileShaders() failed has pushed exactly one
\* SDL_RENDER_TARGETS_RESET event and has not imported, drawn or swapped; no
\* other renderFrame pushes the event.
C7_ResetOnCompileFailure ==
    lastOp = "renderFrame"
        => /\ lastResult = "resetRequested"
                 => /\ Times(RESET_EVENT) = 1
                    /\ ~Logged("exportEGLImages")
                    /\ ~Logged("glDrawArrays")
                    /\ ~Logged("SDL_GL_SwapWindow")
           /\ Logged(RESET_EVENT) => lastResult = "resetRequested"

\* compileShaders() failed on the first frame
C7_Witness ==
    /\ lastOp = "renderFrame"
    /\ frameNo = 1
    /\ compileCalls = 1
    /\ lastResult = "resetRequested"

\* C8: once a renderFrame has failed specialization, no later renderFrame calls
\* compileShaders() again or draws.
C8_ResetRequestedIsTerminal ==
    [][(IsRenderFrameStep /\ compileCalls >= 1 /\ m_EGLImagePixelFormat = AV_PIX_FMT_NONE)
          => /\ compileCalls' = compileCalls
             /\ "glDrawArrays" \notin Range(glLog')]_vars

\* C9: compileShaders() is called at most once on an instance.
C9_CompiledAtMostOnce == compileCalls <= 1

\* C10: once specialization has succeeded, m_EGLImagePixelFormat keeps its value
\* and the backend is not asked for the layout again, until the instance is
\* destroyed.
C10_LayoutFixed ==
    [][(m_EGLImagePixelFormat # AV_PIX_FMT_NONE /\ phase' # "destroyed")
          => /\ m_EGLImagePixelFormat' = m_EGLImagePixelFormat
             /\ formatQueries' = formatQueries]_vars

\* frame 2 was rendered with the layout frame 1 discovered
C10_Witness ==
    /\ lastOp = "renderFrame"
    /\ frameNo = 2
    /\ formatQueries = 1
    /\ lastResult = "presented"
    /\ m_EGLImagePixelFormat \in PixelFormats

\* the compileShader() calls of compileShaders(), by fragment shader
NV12_SHADER == "compileShader(egl_nv12.frag)"

OPAQUE_SHADER == "compileShader(egl_opaque.frag)"

OVERLAY_SHADER == "compileShader(egl_overlay.frag)"

\* C11: a renderFrame whose specialization succeeded has built exactly one video
\* program, from the two-plane shader when the layout is NV12 or P010 and from
\* the opaque shader when it is DRM_PRIME, and the overlay program, and both
\* program handles are non-zero.
C11_OneVariantAndOverlay ==
    (lastOp = "renderFrame" /\ Logged("compileShaders") /\ lastResult # "resetRequested")
        => /\ m_EGLImagePixelFormat
                 \in {"AV_PIX_FMT_NV12", "AV_PIX_FMT_P010", "AV_PIX_FMT_DRM_PRIME"}
           /\ m_EGLImagePixelFormat \in {"AV_PIX_FMT_NV12", "AV_PIX_FMT_P010"}
                 => (Times(NV12_SHADER) = 1 /\ Times(OPAQUE_SHADER) = 0)
           /\ m_EGLImagePixelFormat = "AV_PIX_FMT_DRM_PRIME"
                 => (Times(OPAQUE_SHADER) = 1 /\ Times(NV12_SHADER) = 0)
           /\ Times(OVERLAY_SHADER) = 1
           /\ m_ShaderProgram # 0
           /\ m_OverlayShaderProgram # 0

\* the first frame specialised the renderer for the opaque layout and was drawn
C11_Witness ==
    /\ lastOp = "renderFrame"
    /\ frameNo = 1
    /\ Logged("compileShaders")
    /\ m_EGLImagePixelFormat = "AV_PIX_FMT_DRM_PRIME"
    /\ Logged(OPAQUE_SHADER)
    /\ lastResult = "presented"

\* C12: initialize() fails whenever the video format has the 10-bit flag; a
\* renderFrame to which the backend reported a layout other than NV12, P010 and
\* DRM_PRIME fails specialization without building a program and without
\* drawing; and a renderFrame that draws has one of the three layouts.
C12_NoDrawForUnsupported ==
    /\ (lastOp = "initialize" /\ lastInputs.params.tenBit) => phase = "unusable"
    /\ (lastOp = "renderFrame"
          /\ lastInputs.backendFmt
                \notin {NotAsked, "AV_PIX_FMT_NV12", "AV_PIX_FMT_P010",
                        "AV_PIX_FMT_DRM_PRIME"})
          => /\ lastResult = "resetRequested"
             /\ Range(glLog) \cap {NV12_SHADER, OPAQUE_SHADER, OVERLAY_SHADER} = {}
             /\ ~Logged("glDrawArrays")
    /\ (lastOp = "renderFrame" /\ Logged("glDrawArrays"))
          => m_EGLImagePixelFormat
                \in {"AV_PIX_FMT_NV12", "AV_PIX_FMT_P010", "AV_PIX_FMT_DRM_PRIME"}

\* the backend reported a planar layout to the first frame
C12_Witness ==
    /\ lastOp = "renderFrame"
    /\ frameNo = 1
    /\ lastInputs.backendFmt = "AV_PIX_FMT_YUV420P"
    /\ lastResult = "resetRequested"

\* C13: an initialize() that found neither EGL_KHR_image_base nor EGL_KHR_image,
\* or did not find GL_OES_EGL_image, has returned failure, whatever the decoder
\* parameters and the other capabilities of the driver are.
C13_MissingExtensionFails ==
    (lastOp = "initialize" /\ lastInputs.extensions.read
       /\ (~(lastInputs.extensions.khrImageBase \/ lastInputs.extensions.khrImage)
             \/ ~lastInputs.extensions.oesEglImage))
        => /\ phase = "unusable"
           /\ lastResult = "missing extension"

\* EGL_KHR_image is there and GL_OES_EGL_image is not, on a driver with
\* GL_UNPACK_ROW_LENGTH
C13_Witness ==
    /\ lastOp = "initialize"
    /\ lastInputs.extensions.read
    /\ lastInputs.extensions.khrImage
    /\ ~lastInputs.extensions.oesEglImage
    /\ canUnpackRowLength
    /\ phase = "unusable"

\* C14: whenever initialize() has returned failure, m_InitFailureReason is set.
C14_FailureHasReason ==
    (lastOp = "initialize" /\ phase = "unusable") => m_InitFailureReason # "unset"

\* C15: when initialize() reaches lines 834-855, m_BlockingSwapBuffers is set
\* exactly when vsync is requested and the subsystem is neither Wayland nor
\* KMSDRM, the swap interval is set to 1 exactly when vsync is requested and the
\* subsystem is not Wayland, and to 0 otherwise.
C15_SyncModeFromVsyncAndSubsystem ==
    (lastOp = "initialize" /\ lastInputs.syncProcs.read)
        => LET vsync == lastInputs.params.enableVsync
               subsystem == lastInputs.params.subsystem
           IN  /\ m_BlockingSwapBuffers
                     <=> (vsync /\ subsystem \notin {"SDL_SYSWM_WAYLAND", "SDL_SYSWM_KMSDRM"})
               /\ Logged("SDL_GL_SetSwapInterval(1)")
                     <=> (vsync /\ subsystem # "SDL_SYSWM_WAYLAND")
               /\ Logged("SDL_GL_SetSwapInterval(0)")
                     <=> ~(vsync /\ subsystem # "SDL_SYSWM_WAYLAND")
               /\ Len(glLog) = 1

\* vsync on KMSDRM, without the sync entry points: swap interval 1, not blocking
C15_Witness ==
    /\ lastOp = "initialize"
    /\ phase = "initialized"
    /\ lastInputs.params.enableVsync
    /\ lastInputs.params.subsystem = "SDL_SYSWM_KMSDRM"
    /\ ~lastInputs.syncProcs.wait
    /\ ~m_BlockingSwapBuffers
    /\ Logged("SDL_GL_SetSwapInterval(1)")

\* the renderFrame that ran last reached the video draw in non-blocking mode
\* with the sync entry points resolved
C16_DrewNonBlocking ==
    /\ lastOp = "renderFrame"
    /\ ~m_BlockingSwapBuffers
    /\ m_eglClientWaitSync
    /\ Logged("glDrawArrays")

\* such a renderFrame created one fence, after the draw and before the swap, and
\* left it pending
C16_OneFenceBetweenDrawAndSwap ==
    C16_DrewNonBlocking
        => /\ Times("eglCreateSync") = 1
           /\ Times("glDrawArrays") = 1
           /\ Times("SDL_GL_SwapWindow") = 1
           /\ \A d \in Positions(glLog, "glDrawArrays"),
                 f \in Positions(glLog, "eglCreateSync"),
                 w \in Positions(glLog, "SDL_GL_SwapWindow") : d < f /\ f < w
           /\ m_LastRenderSync = frameNo
           /\ frameNo \in liveFences

C17_PresentedBlocking ==
    /\ lastOp = "renderFrame"
    /\ m_BlockingSwapBuffers
    /\ lastResult = "presented"

\* the calls of the log after its one SDL_GL_SwapWindow
C17_AfterSwap ==
    LET w == CHOOSE i \in Positions(glLog, "SDL_GL_SwapWindow") : TRUE
    IN  SubSeq(glLog, w + 1, Len(glLog))

\* no fence is created before the swap and nothing is cleared before the video
\* draw
C17_NothingEarly ==
    /\ Times("SDL_GL_SwapWindow") = 1
    /\ Times("glDrawArrays") = 1
    /\ \A w \in Positions(glLog, "SDL_GL_SwapWindow") :
          /\ \A f \in Positions(glLog, "eglCreateSync") : w < f
          /\ \A c \in Positions(glLog, "glClear") : w < c
          /\ \A d \in Positions(glLog, "glDrawArrays") : d < w

WAIT_AND_DESTROY == <<"SDL_GL_MakeCurrent", "eglClientWaitSync(EGL_FOREVER)", "eglDestroySync">>

FINISH == <<"SDL_GL_MakeCurrent", "glFinish">>

\* C18: an initialize() that cannot resolve one of the create, destroy and wait
\* entry points keeps none of them and fails only if a later call fails; without
\* the entry points no fence is ever created or pending, and every waitToRender
\* calls glFinish; every waitToRender does exactly one of wait-and-destroy and
\* glFinish, and leaves no fence pending.
C18_NoFenceMechanismIsNotFatal ==
    /\ (lastOp = "initialize" /\ lastInputs.syncProcs.read
          /\ ~(lastInputs.syncProcs.create /\ lastInputs.syncProcs.destroy
                /\ lastInputs.syncProcs.wait))
          => /\ ~m_eglCreateSync /\ ~m_eglCreateSyncKHR
             /\ ~m_eglDestroySync /\ ~m_eglClientWaitSync
             /\ phase = "initialized" <=> lastResult = "none"
             /\ lastResult \in {"none", "setupVideoRenderingState",
                                "setupOverlayRenderingState", "glGetError"}
    /\ ~m_eglClientWaitSync
          => /\ liveFences = {}
             /\ m_LastRenderSync = EGL_NO_SYNC
             /\ ~Logged("eglCreateSync")
             /\ lastOp = "waitToRender" => glLog = FINISH
    /\ lastOp = "waitToRender"
          => /\ glLog \in {WAIT_AND_DESTROY, FINISH}
             /\ m_LastRenderSync = EGL_NO_SYNC
             /\ liveFences = {}

\* without the sync entry points, the waitToRender after a presented frame has
\* called glFinish
C18_Witness ==
    /\ lastOp = "waitToRender"
    /\ phase = "initialized"
    /\ ~m_eglClientWaitSync
    /\ frameNo = 1
    /\ lastFrameFormat # NoFrameFormat
    /\ glLog = FINISH

C20_NotifyWritesOneFlag ==
    [][\A type \in OverlayTypes :
          NotifyOverlayUpdated(type)
             => /\ \A u \in OverlayTypes \ {type} :
                      m_OverlayHasValidData'[u] = m_OverlayHasValidData[u]
                /\ m_OverlayHasValidData'[type] \in {0, m_OverlayHasValidData[type]}
                /\ UNCHANGED <<m_EGLImagePixelFormat, m_ShaderProgram,
                               m_OverlayShaderProgram, m_VideoVAO, m_LastRenderSync,
                               lastFrameFormat, setupVars, driverVars, glLog,
                               ctxCurrent>>]_vars

\* an overlay was drawn by the last renderFrame and then disabled, and a
\* notifyOverlayUpdated for its slot has cleared the flag since; the other slot
\* is unchanged
C20_Witness ==
    /\ lastOp = "renderFrame"
    /\ phase = "initialized"
    /\ \E t \in OverlayTypes :
          /\ Logged("glDrawArrays:" \o t)
          /\ ~overlayEnabled[t]
          /\ m_OverlayHasValidData[t] = 0

\* C21: the state a notifyOverlayUpdated(type) call leaves is one that a second
\* notifyOverlayUpdated(type), made before the overlay changes, would leave as it
\* is: the second call writes 0 to the flag of a disabled overlay and nothing
\* else, and after the first call that flag is 0 already.  The next renderFrame
\* therefore starts from the same state after one call and after two.
C21_NotifyIdempotent ==
    [][\A type \in OverlayTypes :
          NotifyOverlayUpdated(type)
             => /\ ~overlayEnabled'[type] => m_OverlayHasValidData'[type] = 0
                /\ UNCHANGED <<overlayVars, countVars, callVars, phase>>]_vars

\* the first frame drew an overlay, the overlay was then disabled and a
\* notifyOverlayUpdated has cleared its flag
C21_Witness ==
    /\ lastOp = "renderFrame"
    /\ frameNo = 1
    /\ events = 2
    /\ phase = "initialized"
    /\ \E t \in OverlayTypes :
          /\ Logged("glDrawArrays:" \o t)
          /\ ~overlayEnabled[t]
          /\ m_OverlayHasValidData[t] = 0

\* the calls renderOverlay makes for one slot
OverlayCallsOf(t) ==
    {"glTexImage2D:" \o t, "glBufferData:" \o t, "glBindTexture:" \o t,
     "glDrawArrays:" \o t}

HasBit(n, b) == (n \div (2^b)) % 2 = 1

\* C23: notifyWindowChanged returns true exactly when no bit other than the size
\* bit and the display bit is set in the flags, and the call changes no field of
\* the renderer.
C23_AbsorbsSizeAndDisplayOnly ==
    [][(call.fn = "notifyWindowChanged" /\ call'.done /\ ~call.done) =>
          /\ call'.result =
                (\A b \in 0 .. (FlagBits - 1) :
                    HasBit(call.flags, b) =>
                       2^b \in {WINDOW_STATE_CHANGE_SIZE, WINDOW_STATE_CHANGE_DISPLAY})
          /\ UNCHANGED rendererVars]_vars

\* a size and display change was absorbed
C23_Witness ==
    /\ call.fn = "notifyWindowChanged"
    /\ call.done
    /\ call.flags = WINDOW_STATE_CHANGE_SIZE + WINDOW_STATE_CHANGE_DISPLAY
    /\ call.result

\* C24: testRenderFrame answers true exactly when the plane count the import
\* returned is not negative, that is, exactly for the imports that renderFrame's
\* own test (line 1093) lets through.
C24_TestAcceptsWhatRenderAccepts ==
    lastOp = "testRenderFrame" =>
       /\ (lastResult = "true") = (lastPlaneCount >= 0)
       /\ (lastResult = "true") = ~ImportFailed(lastPlaneCount)

Abs(n) == IF n < 0 THEN -n ELSE n

\* the rectangle d, computed for a frame and a drawable of the sizes in c, lies
\* inside the drawable
C25_Inside(c, d) ==
    /\ d.w >= 0 /\ d.h >= 0 /\ d.x >= 0 /\ d.y >= 0
    /\ d.x + d.w <= c.drawableWidth
    /\ d.y + d.h <= c.drawableHeight

\* d fills the drawable along one axis and is less than a pixel away from the
\* frame's aspect ratio along the other
C25_KeepsAspect(c, d) ==
    \/ /\ d.w = c.drawableWidth
       /\ Abs(d.h * c.width - d.w * c.height) < c.width
    \/ /\ d.h = c.drawableHeight
       /\ Abs(d.w * c.height - d.h * c.width) < c.height

C25_Centered(c, d) ==
    /\ d.x = (c.drawableWidth - d.w) \div 2
    /\ d.y = (c.drawableHeight - d.h) \div 2

\* C25: for every frame size and drawable size looked at, the rectangle
\* renderFrame hands to glViewport lies inside the drawable, keeps the frame's
\* aspect ratio within rounding and is centered; a 1920x1080 frame in a 1280x720
\* drawable gets 1280x720 at (0,0), a 1920x800 frame in a 1920x1080 drawable gets
\* 1920x800 at (0,140).
C25_ViewportInsideAspectCentered ==
    (call.fn = "viewport" /\ call.done) =>
       /\ C25_Inside(call, call.dst)
       /\ C25_KeepsAspect(call, call.dst)
       /\ C25_Centered(call, call.dst)
       /\ <<call.width, call.height, call.drawableWidth, call.drawableHeight>>
             = <<1920, 1080, 1280, 720>>
          => call.dst = [x |-> 0, y |-> 0, w |-> 1280, h |-> 720]
       /\ <<call.width, call.height, call.drawableWidth, call.drawableHeight>>
             = <<1920, 800, 1920, 1080>>
          => call.dst = [x |-> 0, y |-> 140, w |-> 1920, h |-> 800]

\* the letterboxed scenario was computed
C25_Witness ==
    /\ call.fn = "viewport"
    /\ call.done
    /\ call.width = 1920 /\ call.height = 800
    /\ call.drawableWidth = 1920 /\ call.drawableHeight = 1080
    /\ call.dst.y = 140

\* C26: a renderFrame whose import succeeded reaches the buffer swap, whatever
\* fails between the import and the swap (a GL entry point that does not resolve,
\* a GL error while binding a plane).
C26_ImportedFrameIsSwapped ==
    (lastOp = "renderFrame" /\ Logged("exportEGLImages") /\ lastPlaneCount >= 0)
       => Logged("SDL_GL_SwapWindow")

\* C27: a renderFrame uploads the conversion constants only when the layout is a
\* two-plane one and the colorspace and range of its frame differ from those of
\* the last frame looked at; the second of two consecutive drawn frames of equal
\* colorspace and range uploads nothing, and in the opaque layout no frame does.
C27_UploadOnlyOnChangeInTwoPlane ==
    [][IsRenderFrameStep =>
          /\ ("glUniformMatrix3fv" \in Range(glLog')) =>
                /\ m_EGLImagePixelFormat' \in {"AV_PIX_FMT_NV12", "AV_PIX_FMT_P010"}
                /\ "glDrawArrays" \in Range(glLog')
                /\ lastFrameFormat' # lastFrameFormat
                /\ uniformsFormat' = lastFrameFormat'
          /\ ("glUniformMatrix3fv" \notin Range(glLog')) =>
                uniformsFormat' = uniformsFormat
          /\ m_EGLImagePixelFormat' = "AV_PIX_FMT_DRM_PRIME" =>
                "glUniformMatrix3fv" \notin Range(glLog')]_vars

\* the second frame of a two-plane stream was drawn with the colorspace and range
\* of the first, which uploaded the constants, and uploaded nothing
C27_Witness ==
    /\ lastOp = "renderFrame"
    /\ frameNo = 2
    /\ m_EGLImagePixelFormat = "AV_PIX_FMT_NV12"
    /\ Logged("glDrawArrays")
    /\ ~Logged("glUniformMatrix3fv")
    /\ uniformsFormat = lastFrameFormat
    /\ lastFrameFormat \in FrameFormats

\* the bind loop of renderFrame has run for an import of at least one plane
C28_Bound == call.fn = "bindPlanes" /\ call.done /\ call.plane_count > 0

\* the filter the claim names for the frame and the rectangle of the call
C28_FilterWanted ==
    IF /\ \E m \in 0 .. call.dst.w : call.dst.w = m * call.width
       /\ \E m \in 0 .. call.dst.h : call.dst.h = m * call.height
    THEN "GL_NEAREST"
    ELSE "GL_LINEAR"

C29_PlaneIndexInBounds ==
    (call.fn = "bindPlanes" /\ call.done) =>
       /\ \A k \in DOMAIN call.bound :
             /\ call.bound[k].plane = k - 1
             /\ call.bound[k].unit = k - 1
             /\ call.bound[k].texture = k - 1
             /\ call.bound[k].image = k - 1
             /\ k - 1 < EGL_MAX_PLANES
       /\ Len(call.bound) = (IF call.plane_count <= EGL_MAX_PLANES
                             THEN call.plane_count ELSE 0)

\* C30: a renderOverlay(type) that finds the overlay disabled makes no GL call
\* (no upload, no draw, no change of GL state), leaves a surface waiting in the
\* overlay manager where it is, for this overlay and for the others, and leaves
\* every validity flag as it was.
C30_DisabledOverlayUntouched ==
    (call.fn = "renderOverlay" /\ call.done /\ ~overlayEnabled[call.type]) =>
       /\ call.after.log = <<>>
       /\ call.after.pending = call.before.pending
       /\ call.after.valid = call.before.valid

\* the overlay was disabled with a surface waiting and its flag set
C30_Witness ==
    /\ call.fn = "renderOverlay"
    /\ call.done
    /\ ~overlayEnabled[call.type]
    /\ call.before.pending[call.type]
    /\ call.before.valid[call.type] = 1
    /\ call.after.pending[call.type]

\* C31: when notifyOverlayUpdated(type) returns, the validity flag of the slot is
\* 0, whether the overlay was disabled or its content was updated.
C31_NotifyClearsFlag ==
    (call.fn = "notifyOverlayUpdated" /\ call.done) => call.after[call.type] = 0

\* C32: the validity flag of a slot goes from 0 to 1 only in a renderFrame, in
\* the renderOverlay of that slot, and only when that call has issued both the
\* texture upload and the update of the quad's vertex buffer; a call that gives
\* the upload up because malloc() failed leaves the flag as it was.
C32_FlagSetOnlyAfterUpload ==
    [][\A t \in OverlayTypes :
          (m_OverlayHasValidData[t] = 0 /\ m_OverlayHasValidData'[t] = 1) =>
             /\ IsRenderFrameStep
             /\ {"glTexImage2D:" \o t, "glBufferData:" \o t} \subseteq Range(glLog')
             /\ ~lastInputs'.nomem]_vars

\* the event at position i of the log of the last call comes after an event e
\* with no event f in between
C33_LastBefore(i, e, f) ==
    \E j \in 1 .. (i - 1) :
       /\ glLog[j] = e
       /\ \A k \in (j + 1) .. (i - 1) : glLog[k] # f

\* every overlay draw of the last renderFrame comes after its video draw and
\* before its swap
C33_OverlaysBetweenDrawAndSwap ==
    lastOp = "renderFrame" =>
       \A t \in OverlayTypes : \A i \in Positions(glLog, "glDrawArrays:" \o t) :
          /\ \E j \in 1 .. (i - 1) : glLog[j] = "glDrawArrays"
          /\ \E k \in (i + 1) .. Len(glLog) : glLog[k] = "SDL_GL_SwapWindow"

\* the viewport and the blending of the draws of the last renderFrame, when the
\* entry points named in needViewport and needBlend resolve
C33_ViewportsAndBlending(needViewport, needBlend) ==
    lastOp = "renderFrame" =>
       /\ \A t \in OverlayTypes : \A i \in Positions(glLog, "glDrawArrays:" \o t) :
             /\ needViewport =>
                   C33_LastBefore(i, "glViewport(drawable)", "glViewport(dst)")
             /\ needBlend => (i > 1 /\ glLog[i - 1] = "glEnable(GL_BLEND)")
       /\ \A i \in Positions(glLog, "glDrawArrays") :
             needViewport => C33_LastBefore(i, "glViewport(dst)", "glViewport(drawable)")

C34_CompileEntersWithNoProgram ==
    /\ "compileShaders:428" \notin assertFailed
    /\ "compileShaders:429" \notin assertFailed

\* C35: however the steps of a renderOverlay on the render thread and of a
\* notifyOverlayUpdated on another thread interleave, once the overlay has been
\* disabled and notifyOverlayUpdated has returned for it, the flag of the slot is
\* 0, and it is 0 in particular when the renderOverlay has returned.
C35_FlagClearOnceNotified ==
    (call.fn = INTERLEAVED /\ call.manager = "notified") =>
       /\ ~call.enabled
       /\ call.valid = 0
       /\ call.done => call.valid = 0

C36_DestroysLiveFence ==
    ((WaitToRender \/ Destructor) /\ "eglDestroySync" \in Range(glLog')) =>
        /\ m_LastRenderSync \in liveFences
        /\ liveFences' = liveFences \ {m_LastRenderSync}
        /\ m_LastRenderSync' = EGL_NO_SYNC
        /\ Cardinality(Positions(glLog', "eglDestroySync")) = 1

C36_OnlyRenderFrameCreates ==
    (liveFences' # liveFences) =>
        \/ /\ IsRenderFrameStep
           /\ liveFences' = liveFences \cup {frameNo'}
           /\ frameNo' \notin liveFences
        \/ /\ liveFences' = liveFences \ {m_LastRenderSync}
           /\ "eglDestroySync" \in Range(glLog')

\* C36: every fence renderFrame creates is destroyed exactly once.  A
\* waitToRender or a destructor that calls eglDestroySync destroys the fence
\* m_LastRenderSync names, that fence has not been destroyed before, and the
\* field no longer names it afterwards; only renderFrame creates fences; and
\* once the destructor has run no fence is left.
C36_EveryFenceDestroyedOnce ==
    /\ [](phase = "destroyed" => liveFences = {})
    /\ [][C36_DestroysLiveFence /\ C36_OnlyRenderFrameCreates]_vars

\* the destructor destroyed the fence of the last frame
C36_Witness ==
    /\ phase = "destroyed"
    /\ frameNo >= 1
    /\ Logged("eglDestroySync")
    /\ liveFences = {}

\* the calls renderFrame made before its video draw
C37_BeforeVideoDraw ==
    LET d == CHOOSE i \in Positions(glLog', "glDrawArrays") : TRUE
    IN  SubSeq(glLog', 1, d - 1)

\* C37: in both synchronization modes every video draw goes into a back buffer
\* that has been cleared since the most recent swap, the swap of prepareToRender
\* included: the first frame of an instance and the first frame drawn after an
\* abandoned frame are no exceptions.
C37_VideoDrawnIntoClearedBuffer ==
    [][(IsRenderFrameStep /\ "glDrawArrays" \in Range(glLog')) =>
          BackBufferAfter(C37_BeforeVideoDraw, backBufferCleared)]_vars

\* C38: in the two-plane layout, at every video draw the conversion constants
\* most recently uploaded to the video program are those of the colorspace and
\* range of the frame drawn, over any sequence of frames of changing colorspace
\* and range and of frames whose import fails.
C38_ConstantsMatchDrawnFrame ==
    (/\ lastOp = "renderFrame"
     /\ Logged("glDrawArrays")
     /\ IsTwoPlane(m_EGLImagePixelFormat))
       => uniformsFormat = lastFrameFormat

====
